---- MODULE Spec2Model ----
(***************************************************************************)
(* A model of one synchronisation run of translatetool (src/src/main.rs,   *)
(* `main`) and of the Translator it drives (src/src/translate.rs).         *)
(* Spec is one run; SpecTwice runs main a second time on the same files;   *)
(* SpecRuns runs it again on the file the run before has written.          *)
(*                                                                         *)
(* Text is a sequence of one-character strings, so that the search for     *)
(* the sentinel "___" (str::replacen) is modelled character by character.  *)
(* An Option<T> is a sequence of length 0 (None) or 1 (Some).              *)
(***************************************************************************)
EXTENDS Naturals, Sequences, FiniteSets

VARIABLES
    pc,                   \* position of main: start, decide, translate, write, done, or the
                          \* error it returned with: fatal_locale, fatal_create, fatal_write
    locale,               \* the --locale argument
    languages,            \* what Translator::available_languages returned, None before
                          \* the call
    source,               \* parsed current source resource (ordered entries)
    source_outdated,      \* parsed prior source snapshot (--diff)
    target_existing,      \* parsed existing target resource, read before the output is created
    idx,                  \* index of the next entry of source.body in the running loop
    pending_translations, \* HashMap id -> Option<String>, built by the decide loop
    translations,         \* HashMap id -> Option<String>, built by the translate loop
    sent,                 \* the calls made to Translator::translate so far in this
                          \* run, each with its outcome: {[id, text, ok]}
    disk,                 \* the file at out_path: a sequence of written entries, or NoFile
    previous              \* the runs made before this one, in order: what each was
                          \* given, what it asked the service and what it wrote

vars == <<pc, locale, languages, source, source_outdated, target_existing, idx,
          pending_translations, translations, sent, disk, previous>>

-----------------------------------------------------------------------------
(* Bounds *)

\* longest source resource (entries)
MaxEntries == 2

-----------------------------------------------------------------------------
(* Text *)

Sentinel == <<"_", "_", "_">>

HandTag == "tt-hand-translated"

LangTag == "tt-lang-name"

LangNameFallback == <<"<INSERT LANGUAGE NAME HERE>">>

\* the text of the concatenation of a sequence of texts
RECURSIVE Concat(_)
Concat(ss) == IF ss = <<>> THEN <<>> ELSE Head(ss) \o Concat(Tail(ss))

\* text s has pat at position k
MatchAt(s, pat, k) ==
    /\ k + Len(pat) - 1 <= Len(s)
    /\ \A j \in 1..Len(pat) : s[k + j - 1] = pat[j]

\* the positions of s where pat occurs
Matches(s, pat) == {k \in 1..Len(s) : MatchAt(s, pat, k)}

\* str::replacen(pat, to, 1): the first occurrence of pat replaced, or s unchanged
replacen(s, pat, to) ==
    IF Matches(s, pat) = {} THEN s
    ELSE LET k == CHOOSE m \in Matches(s, pat) : \A o \in Matches(s, pat) : m <= o
         IN  SubSeq(s, 1, k - 1) \o to \o SubSeq(s, k + Len(pat), Len(s))

-----------------------------------------------------------------------------
(* The resource model: fluent_syntax::ast as main.rs uses it *)

None == <<>>

Some(x) == <<x>>

InlineKinds == {"StringLiteral", "NumberLiteral", "FunctionReference",
                "MessageReference", "TermReference", "VariableReference",
                "Placeable"}

ExprKinds == InlineKinds \cup {"SelectExpression"}

\* an expression: its variant and the name it carries (the literal's value, the
\* referenced id, the function's id, the selector of a select expression)
Expr(kind, name) == [kind |-> kind, name |-> name]

TextElement(s) == [type |-> "TextElement", s |-> s, e |-> Expr("", <<>>)]

Placeable(e) == [type |-> "Placeable", s |-> <<>>, e |-> e]

StandaloneComment(content) == [scope |-> "Comment", content |-> content]

GroupComment(content) == [scope |-> "GroupComment", content |-> content]

ResourceComment(content) == [scope |-> "ResourceComment", content |-> content]

Message(id, value, comment) ==
    [type |-> "Message", id |-> id, value |-> value, comment |-> comment]

Term(id, pattern, comment) ==
    [type |-> "Term", id |-> id, value |-> Some(pattern), comment |-> comment]

CommentEntry(c) == [type |-> "Comment", id |-> "", value |-> None, comment |-> Some(c)]

\* a comment line is a sequence of words; str::contains(tag) finds the tag among them
contains(line, tag) == \E k \in 1..Len(line) : line[k] = tag

\* content.iter().any(|c| c.contains(tag))
any_contains(content, tag) == \E k \in 1..Len(content) : contains(content[k], tag)

\* find_message: the first message of the resource with this id
RECURSIVE find_message(_, _)
find_message(resource, id) ==
    IF resource = <<>> THEN None
    ELSE IF Head(resource).type = "Message" /\ Head(resource).id = id
         THEN Some(Head(resource))
         ELSE find_message(Tail(resource), id)

-----------------------------------------------------------------------------
(* Writing: write_comment, write_expression, write_pattern *)

CommentPrefix(scope) ==
    CASE scope = "Comment" -> "#"
      [] scope = "GroupComment" -> "##"
      [] scope = "ResourceComment" -> "###"

\* write_comment: one line "<prefix> <line>" per line of the comment, nothing for None
write_comment(comment) ==
    IF comment = None THEN <<>>
    ELSE [k \in 1..Len(comment[1].content) |->
             <<CommentPrefix(comment[1].scope)>> \o comment[1].content[k]]

\* write_expression: the text written for a placeable
write_expression(e) ==
    CASE e.kind = "StringLiteral" -> <<"{", " ">> \o e.name \o <<" ", "}">>
      [] e.kind = "NumberLiteral" -> <<"{", " ">> \o e.name \o <<" ", "}">>
      [] e.kind = "FunctionReference" -> Sentinel
      [] e.kind = "MessageReference" -> <<"{", " ">> \o e.name \o <<" ", "}">>
      [] e.kind = "TermReference" -> <<"{", " ", "-">> \o e.name \o <<" ", "}">>
      [] e.kind = "VariableReference" -> <<"{", " ", "$">> \o e.name \o <<" ", "}">>
      [] e.kind = "Placeable" -> Sentinel
      [] e.kind = "SelectExpression" -> Sentinel

write_element(el) ==
    IF el.type = "TextElement" THEN el.s ELSE write_expression(el.e)

\* write_pattern: the elements written one after the other
write_pattern(pattern) ==
    Concat([k \in 1..Len(pattern) |-> write_element(pattern[k])])

-----------------------------------------------------------------------------
(* The Fluent text of a resource: what fluent_syntax::parser::parse reads as *)
(* the given syntax tree.  The files of a run are taken in this form.        *)

fluent_expression(e) ==
    CASE e.kind = "StringLiteral" -> <<"{", " ", "\"">> \o e.name \o <<"\"", " ", "}">>
      [] e.kind = "NumberLiteral" -> <<"{", " ">> \o e.name \o <<" ", "}">>
      [] e.kind = "FunctionReference" -> <<"{", " ">> \o e.name \o <<"(", ")", " ", "}">>
      [] e.kind = "MessageReference" -> <<"{", " ">> \o e.name \o <<" ", "}">>
      [] e.kind = "TermReference" -> <<"{", " ", "-">> \o e.name \o <<" ", "}">>
      [] e.kind = "VariableReference" -> <<"{", " ", "$">> \o e.name \o <<" ", "}">>
      [] e.kind = "Placeable" -> <<"{", " ", "{", " ">> \o e.name \o <<" ", "}", " ", "}">>
      [] e.kind = "SelectExpression" ->
             <<"{", " ", "$">> \o e.name \o <<" ", "->", " ", "*[other]", " ", "}">>

fluent_pattern(pattern) ==
    Concat([k \in 1..Len(pattern) |->
               IF pattern[k].type = "TextElement" THEN pattern[k].s
               ELSE fluent_expression(pattern[k].e)])

\* the text of an Option<Pattern>
fluent_value(value) == IF value = None THEN <<>> ELSE fluent_pattern(value[1])

-----------------------------------------------------------------------------
(* The file at out_path: a sequence of written entries *)

\* the file with the given entries
File(body) == [exists |-> TRUE, body |-> body]

NoFile == [exists |-> FALSE, body |-> <<>>]

\* one entry as written: kind "Message" (id = value), "Term" (-id = value),
\* "Comment" (a top-level comment) or "Blank" (the two line ends alone)
Written(kind, id, comment, value) ==
    [kind |-> kind, id |-> id, comment |-> comment, value |-> value]

\* the Fluent text of one entry of a resource
fluent_entry(entry) ==
    Written(entry.type, entry.id, write_comment(entry.comment), fluent_value(entry.value))

\* the file a resource was parsed from
fluent_file(resource) ==
    IF resource = <<>> THEN NoFile
    ELSE File([k \in 1..Len(resource) |-> fluent_entry(resource[k])])

-----------------------------------------------------------------------------
(* The decisions of the first loop of main *)

\* needs_translation_from_diff with the comparison turned round
needs_translation_from_diff_equal(message, outdated_resource) ==
    LET outdated == find_message(outdated_resource, message.id)
    IN  IF outdated # None THEN message.value = outdated[1].value ELSE TRUE

\* main.rs 276-288: does the diff against the prior snapshot ask for a translation
needs_translation_from_diff(message, outdated_resource) ==
    LET outdated == find_message(outdated_resource, message.id)
    IN  IF outdated # None THEN message.value # outdated[1].value ELSE TRUE

\* needs_translation with any comment-free target entry forcing a translation
needs_translation_forcing_untagged(message, outdated_resource, existing_resource) ==
    LET existing == find_message(existing_resource, message.id)
        from_diff == needs_translation_from_diff(message, outdated_resource)
    IN  IF existing # None
        THEN IF existing[1].comment # None
             THEN IF existing[1].comment[1].scope = "Comment"
                  THEN ~any_contains(existing[1].comment[1].content, HandTag)
                  ELSE from_diff
             ELSE TRUE
        ELSE TRUE

\* needs_translation with a message absent from the target following the diff
needs_translation_absent_follows_diff(message, outdated_resource, existing_resource) ==
    LET existing == find_message(existing_resource, message.id)
        from_diff == needs_translation_from_diff(message, outdated_resource)
    IN  IF existing # None
        THEN IF existing[1].comment # None
             THEN IF existing[1].comment[1].scope = "Comment"
                  THEN ~any_contains(existing[1].comment[1].content, HandTag)
                  ELSE from_diff
             ELSE from_diff
        ELSE from_diff

\* needs_translation with a message absent from the target left alone
needs_translation_absent_skips(message, outdated_resource, existing_resource) ==
    LET existing == find_message(existing_resource, message.id)
        from_diff == needs_translation_from_diff(message, outdated_resource)
    IN  IF existing # None
        THEN IF existing[1].comment # None
             THEN IF existing[1].comment[1].scope = "Comment"
                  THEN ~any_contains(existing[1].comment[1].content, HandTag)
                  ELSE from_diff
             ELSE from_diff
        ELSE FALSE

\* needs_translation with the tag looked for in a comment of any scope
needs_translation_any_scope(message, outdated_resource, existing_resource) ==
    LET existing == find_message(existing_resource, message.id)
        from_diff == needs_translation_from_diff(message, outdated_resource)
    IN  IF existing # None
        THEN IF existing[1].comment # None
             THEN ~any_contains(existing[1].comment[1].content, HandTag)
             ELSE from_diff
        ELSE TRUE

\* main.rs 296-310: the verdict after the check of the existing target
needs_translation(message, outdated_resource, existing_resource) ==
    LET existing == find_message(existing_resource, message.id)
        from_diff == needs_translation_from_diff(message, outdated_resource)
    IN  IF existing # None
        THEN IF existing[1].comment # None
             THEN IF existing[1].comment[1].scope = "Comment"
                  THEN ~any_contains(existing[1].comment[1].content, HandTag)
                  ELSE from_diff
             ELSE from_diff
        ELSE TRUE

\* main.rs 319-327
is_lang_name(message) ==
    IF message.comment # None
    THEN IF message.comment[1].scope = "Comment"
         THEN any_contains(message.comment[1].content, LangTag)
         ELSE FALSE
    ELSE FALSE

\* main.rs 342-349: the pattern with every placeable replaced by the sentinel
source_formatted(pattern) ==
    Concat([k \in 1..Len(pattern) |->
               IF pattern[k].type = "TextElement" THEN pattern[k].s ELSE Sentinel])

\* main.rs 411-428: the renderings of the placeables of a message's value, in order
RECURSIVE placeables_of(_)
placeables_of(pattern) ==
    IF pattern = <<>> THEN <<>>
    ELSE (IF Head(pattern).type = "Placeable"
          THEN <<write_expression(Head(pattern).e)>> ELSE <<>>)
         \o placeables_of(Tail(pattern))

placeables(value) == IF value = None THEN <<>> ELSE placeables_of(value[1])

\* main.rs 430-433: each placeable in turn replaces the first sentinel left
RECURSIVE reinsert(_, _)
reinsert(msg, ps) ==
    IF ps = <<>> THEN msg
    ELSE reinsert(replacen(msg, Sentinel, Head(ps)), Tail(ps))

-----------------------------------------------------------------------------
(* The Translator (translate.rs) and the service behind it *)

Ok(t) == [ok |-> TRUE, text |-> t]

Err == [ok |-> FALSE, text |-> <<>>]

\* str::replace: every occurrence of pat, left to right
RECURSIVE replace(_, _, _)
replace(s, pat, to) ==
    IF s = <<>> THEN <<>>
    ELSE IF MatchAt(s, pat, 1)
         THEN to \o replace(SubSeq(s, Len(pat) + 1, Len(s)), pat, to)
         ELSE <<Head(s)>> \o replace(Tail(s), pat, to)

\* escaper::decode_html: a character entity becomes its character
decode_html(s) == [k \in 1..Len(s) |-> IF s[k] = "&amp;" THEN "&" ELSE s[k]]

\* translate.rs 129-132: what translate makes of the text the service returned
postprocess(t) ==
    replace(replace(decode_html(t), <<"\n">>, <<"\n", " ", " ", " ", " ">>),
            <<"Â", " ">>, <<" ">>)

\* the service's rendering of one character in the target language
XlateChar(c) ==
    CASE c = "a" -> "A"
      [] c = "b" -> "B"
      [] c = "f" -> "F"
      [] c = "r" -> "R"
      [] OTHER -> c

Xlate(s) == [k \in 1..Len(s) |-> XlateChar(s[k])]

\* the texts the remote service may answer a phrase with: the phrase unchanged, its
\* translation with the sentinels kept, with the first sentinel dropped, and with
\* an entity, a line break and one more sentinel added
ServiceReplies(phrase) ==
    { phrase,
      Xlate(phrase),
      replacen(Xlate(phrase), Sentinel, <<>>),
      Xlate(phrase) \o <<"&amp;", "\n">> \o Sentinel }

\* Translator::translate: the results a call may have
translate(language, phrase) ==
    IF language = "en" THEN {Ok(phrase)}
    ELSE {Err} \cup {Ok(postprocess(r)) : r \in ServiceReplies(phrase)}

\* the display name the service lists for a language
DisplayName(language) == IF language = "en" THEN <<"e", "n">> ELSE <<"f", "r">>

\* Translator::get_lang_name: the results a call may have (the query fails, the
\* language is listed, the language is not listed)
get_lang_name(language) == {Err, Ok(DisplayName(language)), Ok(LangNameFallback)}

\* Translator::available_languages: the results a call may have, as the set of
\* listed target language codes, or Err
available_languages ==
    { [ok |-> FALSE, codes |-> {}],
      [ok |-> TRUE, codes |-> {"en", "fr"}],
      [ok |-> TRUE, codes |-> {"en"}] }

-----------------------------------------------------------------------------
(* The inputs of a run *)

Name == <<"n">>

Var == Expr("VariableReference", Name)

Fn == Expr("FunctionReference", Name)

NoteLine == <<"note">>

\* the values of the source messages
SourcePatterns ==
    { <<TextElement(<<"a", " ">>), Placeable(Var), TextElement(<<"!">>)>>,
      <<Placeable(Fn), TextElement(<<"_">>), Placeable(Expr("TermReference", Name))>> }

SourceValues == {None} \cup {Some(p) : p \in SourcePatterns}

SourceComments ==
    { None,
      Some(StandaloneComment(<<NoteLine, <<"see", LangTag>>>>)),
      Some(GroupComment(<<<<LangTag>>>>)) }

\* the values of the messages of the existing target
TargetPatterns ==
    { <<TextElement(<<"A", " ">>), Placeable(Var)>>,
      <<Placeable(Expr("SelectExpression", Name)), TextElement(<<"A">>)>> }

TargetValues == {None} \cup {Some(p) : p \in TargetPatterns}

TargetComments ==
    { None,
      Some(StandaloneComment(<<<<HandTag>>>>)),
      Some(StandaloneComment(<<NoteLine>>)),
      Some(GroupComment(<<<<HandTag>>>>)) }

\* a value other than v, for a prior snapshot whose message has changed since
Changed(v) ==
    IF v = Some(<<TextElement(<<"b">>)>>) THEN None ELSE Some(<<TextElement(<<"b">>)>>)

\* the entries a source resource is made of
SourceEntries ==
    {Message("a", v, c) : v \in SourceValues, c \in SourceComments}
    \cup {Message("b", Some(<<TextElement(<<"b">>)>>), None)}
    \cup {Term("t", p, None) : p \in {<<TextElement(<<"a">>), Placeable(Fn)>>}}
    \cup {CommentEntry(ResourceComment(<<NoteLine>>))}

\* no two entries of the resource are messages, or terms, of one id
UniqueIds(resource) ==
    \A j, k \in 1..Len(resource) :
        (j # k /\ resource[j].type = resource[k].type) => resource[j].id # resource[k].id

Sources ==
    {r \in UNION {[1..n -> SourceEntries] : n \in 1..MaxEntries} : UniqueIds(r)}

\* the messages of a resource, in order
RECURSIVE messages_of(_)
messages_of(resource) ==
    IF resource = <<>> THEN <<>>
    ELSE (IF Head(resource).type = "Message" THEN <<Head(resource)>> ELSE <<>>)
         \o messages_of(Tail(resource))

\* the messages of the existing target: message b is not in it
TargetEntries == {Message("a", v, c) : v \in TargetValues, c \in TargetComments}

\* in the prior snapshot message a is absent, the same, or had another value;
\* message b is new
OutdatedOptions(m) ==
    IF m.id = "a"
    THEN {<<>>, <<m>>, <<Message(m.id, Changed(m.value), m.comment)>>}
    ELSE {<<>>}

\* in the existing target a source message is absent or is one of TargetEntries
TargetOptions(m) == {<<>>} \cup {<<t>> : t \in {e \in TargetEntries : e.id = m.id}}

\* the prior snapshots of a sequence of source messages
RECURSIVE Outdateds(_)
Outdateds(msgs) ==
    IF msgs = <<>> THEN {<<>>}
    ELSE {h \o t : h \in OutdatedOptions(Head(msgs)), t \in Outdateds(Tail(msgs))}

\* the existing targets of a sequence of source messages
RECURSIVE Targets(_)
Targets(msgs) ==
    IF msgs = <<>> THEN {<<>>}
    ELSE {h \o t : h \in TargetOptions(Head(msgs)), t \in Targets(Tail(msgs))}

Locales == {"en", "fr"}

Init ==
    /\ pc = "start"
    /\ locale \in Locales
    /\ languages = None
    /\ source \in Sources
    /\ source_outdated \in Outdateds(messages_of(source))
    /\ target_existing \in Targets(messages_of(source))
    /\ idx = 1
    /\ pending_translations = {}
    /\ translations = {}
    /\ sent = {}
    /\ disk = fluent_file(target_existing)
    /\ previous = <<>>

-----------------------------------------------------------------------------
(* HashMap<&str, Option<String>>: a set of entries, one per key *)

contains_key(map, id) == \E e \in map : e.id = id

get(map, id) == (CHOOSE e \in map : e.id = id).value

insert(map, id, value) == {e \in map : e.id # id} \cup {[id |-> id, value |-> value]}

keys(map) == {e.id : e \in map}

-----------------------------------------------------------------------------
(* The run: main.rs 217-482 *)

\* ValidateLocale going on whatever the service returned
ValidateLocale_unchecked ==
    /\ pc = "start"
    /\ \E r \in available_languages : languages' = Some(r)
    /\ pc' = "decide"
    /\ UNCHANGED <<locale, source, source_outdated, target_existing, idx,
                   pending_translations, translations, sent, disk>>
    /\ UNCHANGED previous

\* main.rs 238-243: the locale must be among the service's target languages
ValidateLocale ==
    /\ pc = "start"
    /\ \E r \in available_languages :
          /\ languages' = Some(r)
          /\ pc' = IF r.ok /\ locale \in r.codes THEN "decide" ELSE "fatal_locale"
    /\ UNCHANGED <<locale, source, source_outdated, target_existing, idx,
                   pending_translations, translations, sent, disk>>
    /\ UNCHANGED previous

\* main.rs 272-358: one iteration of the first loop
Decide ==
    /\ pc = "decide"
    /\ idx <= Len(source)
    /\ LET entry == source[idx]
       IN  IF entry.type = "Message"
              /\ needs_translation(entry, source_outdated, target_existing)
           THEN IF is_lang_name(entry)
                THEN \E r \in get_lang_name(locale) :
                        pending_translations' =
                            insert(pending_translations, entry.id,
                                   Some(IF r.ok THEN r.text ELSE LangNameFallback))
                ELSE IF entry.value # None
                     THEN pending_translations' =
                              insert(pending_translations, entry.id,
                                     Some(source_formatted(entry.value[1])))
                     ELSE pending_translations' =
                              insert(pending_translations, entry.id, None)
           ELSE UNCHANGED pending_translations
    /\ idx' = idx + 1
    /\ UNCHANGED <<pc, locale, languages, source, source_outdated, target_existing,
                   translations, sent, disk>>
    /\ UNCHANGED previous

\* main.rs 358-369: the first loop is over
DecideDone ==
    /\ pc = "decide"
    /\ idx > Len(source)
    /\ pc' = "translate"
    /\ UNCHANGED <<locale, languages, source, source_outdated, target_existing, idx,
                   pending_translations, translations, sent, disk>>
    /\ UNCHANGED previous

\* the unit written empty when its call fails
translated_or_empty(r, value) == IF r.ok THEN r.text ELSE <<>>

\* main.rs 376-382: the translation, or the unit's own text when the call failed
translated_or_value(r, value) == IF r.ok THEN r.text ELSE value

\* Translate with the answer to one unit stored for every unit not yet taken
Translate_answer_shared ==
    /\ pc = "translate"
    /\ \E id \in keys(pending_translations) \ keys(translations) :
          LET value == get(pending_translations, id)
          IN  IF value # None
              THEN \E r \in translate(locale, value[1]) :
                      /\ translations' =
                             {[id |-> e.id, value |-> Some(translated_or_value(r, value[1]))] :
                                 e \in {p \in pending_translations :
                                            ~contains_key(translations, p.id)}}
                             \cup translations
                      /\ sent' = sent \cup {[id |-> id, text |-> value[1], ok |-> r.ok]}
              ELSE /\ translations' = insert(translations, id, None)
                   /\ UNCHANGED sent
    /\ UNCHANGED <<pc, locale, languages, source, source_outdated, target_existing, idx,
                   pending_translations, disk>>
    /\ UNCHANGED previous

\* main.rs 369-388: one pending unit, in the HashMap's iteration order (any)
Translate ==
    /\ pc = "translate"
    /\ \E id \in keys(pending_translations) \ keys(translations) :
          LET value == get(pending_translations, id)
          IN  IF value # None
              THEN \E r \in translate(locale, value[1]) :
                      /\ translations' =
                             insert(translations, id,
                                    Some(translated_or_value(r, value[1])))
                      /\ sent' = sent \cup {[id |-> id, text |-> value[1], ok |-> r.ok]}
              ELSE /\ translations' = insert(translations, id, None)
                   /\ UNCHANGED sent
    /\ UNCHANGED <<pc, locale, languages, source, source_outdated, target_existing, idx,
                   pending_translations, disk>>
    /\ UNCHANGED previous

\* main.rs 392-393: File::create truncates the file at out_path, or fails
CreateFile ==
    /\ pc = "translate"
    /\ keys(pending_translations) = keys(translations)
    /\ \/ /\ pc' = "write"
          /\ disk' = File(<<>>)
          /\ idx' = 1
       \/ /\ pc' = "fatal_create"
          /\ UNCHANGED <<disk, idx>>
    /\ UNCHANGED <<locale, languages, source, source_outdated, target_existing,
                   pending_translations, translations, sent>>
    /\ UNCHANGED previous

\* main.rs 406-472: what the second loop writes for a message
written_message(m, translated, existing_resource) ==
    IF contains_key(translated, m.id)
    THEN IF get(translated, m.id) # None
         THEN Written("Message", m.id, <<>>,
                      reinsert(get(translated, m.id)[1], placeables(m.value)))
         ELSE Written("Blank", "", <<>>, <<>>)
    ELSE LET existing == find_message(existing_resource, m.id)
             message == IF existing # None THEN existing[1] ELSE m
         IN  Written("Message", m.id, write_comment(message.comment),
                     IF message.value # None THEN write_pattern(message.value[1])
                     ELSE <<>>)

\* main.rs 397-477: what the second loop writes for an entry
written_entry(entry, translated, existing_resource) ==
    CASE entry.type = "Term" ->
             Written("Term", entry.id, write_comment(entry.comment),
                     write_pattern(entry.value[1]))
      [] entry.type = "Message" -> written_message(entry, translated, existing_resource)
      [] entry.type = "Comment" ->
             Written("Comment", "", write_comment(entry.comment), <<>>)

\* main.rs 395-479: one iteration of the second loop; a write may fail, which ends
\* the run with what was written so far in the file.  The BufWriter is taken to
\* pass each entry on to the file as it is written: the file holds the entries
\* written so far (it is flushed when its buffer fills and when main returns).
WriteEntry ==
    /\ pc = "write"
    /\ idx <= Len(source)
    /\ \/ /\ disk' = File(Append(disk.body,
                                 written_entry(source[idx], translations, target_existing)))
          /\ idx' = idx + 1
          /\ UNCHANGED pc
       \/ /\ pc' = "fatal_write"
          /\ UNCHANGED <<disk, idx>>
    /\ UNCHANGED <<locale, languages, source, source_outdated, target_existing,
                   pending_translations, translations, sent>>
    /\ UNCHANGED previous

\* main.rs 481: Ok(())
Finish ==
    /\ pc = "write"
    /\ idx > Len(source)
    /\ pc' = "done"
    /\ UNCHANGED <<locale, languages, source, source_outdated, target_existing, idx,
                   pending_translations, translations, sent, disk>>
    /\ UNCHANGED previous

Next ==
    \/ ValidateLocale
    \/ Decide
    \/ DecideDone
    \/ Translate
    \/ CreateFile
    \/ WriteEntry
    \/ Finish

Spec == Init /\ [][Next]_vars

-----------------------------------------------------------------------------
(* fluent_syntax::parser::parse on the file a run has written (main.rs 255-267: *)
(* the output of one run is the existing target of the next)                   *)

Digits == {"0", "1", "2", "3", "4", "5", "6", "7", "8", "9"}

\* the expression between the braces of a placeable, in the forms write_expression
\* writes: `$id`, `-id`, a number, or an identifier, which reads as a message reference
parse_expression(inner) ==
    CASE inner # <<>> /\ Head(inner) = "$" -> Expr("VariableReference", Tail(inner))
      [] inner # <<>> /\ Head(inner) = "-" -> Expr("TermReference", Tail(inner))
      [] inner # <<>> /\ Head(inner) \in Digits -> Expr("NumberLiteral", inner)
      [] OTHER -> Expr("MessageReference", inner)

\* a text element, if there is text for one
text_element(acc) == IF acc = <<>> THEN <<>> ELSE <<TextElement(acc)>>

\* the elements of a pattern's text. A text element ends with its line; the
\* indentation of a continuation line is not part of the next element; a line that
\* is not indented ends the pattern (what follows is junk, and dropped).
RECURSIVE parse_elements(_, _, _)
parse_elements(s, acc, line_start) ==
    IF s = <<>> THEN text_element(acc)
    ELSE IF Head(s) = " " /\ line_start /\ acc = <<>>
         THEN parse_elements(Tail(s), acc, TRUE)
    ELSE IF Head(s) = "{"
         THEN LET close == CHOOSE k \in 1..Len(s) :
                               s[k] = "}" /\ \A j \in 1..(k - 1) : s[j] # "}"
                  inner == SelectSeq(SubSeq(s, 2, close - 1), LAMBDA c : c # " ")
              IN  text_element(acc) \o <<Placeable(parse_expression(inner))>>
                  \o parse_elements(SubSeq(s, close + 1, Len(s)), <<>>, FALSE)
    ELSE IF Head(s) = "\n"
         THEN IF Len(s) > 1 /\ s[2] \in {" ", "\n"}
              THEN <<TextElement(acc \o <<"\n">>)>> \o parse_elements(Tail(s), <<>>, TRUE)
              ELSE text_element(acc)
    ELSE parse_elements(Tail(s), acc \o <<Head(s)>>, FALSE)

parse_pattern(text) == parse_elements(text, <<>>, FALSE)

\* the lines of a written comment without their prefix
comment_content(lines) == [k \in 1..Len(lines) |-> Tail(lines[k])]

\* the comment of a message or term: the `#` lines right above it
parse_comment(lines) ==
    IF lines # <<>> /\ Head(lines[1]) = "#"
    THEN Some(StandaloneComment(comment_content(lines)))
    ELSE None

\* a comment that stands alone, of the scope its prefix tells
parse_comment_entry(lines) ==
    CASE Head(lines[1]) = "#" -> CommentEntry(StandaloneComment(comment_content(lines)))
      [] Head(lines[1]) = "##" -> CommentEntry(GroupComment(comment_content(lines)))
      [] Head(lines[1]) = "###" -> CommentEntry(ResourceComment(comment_content(lines)))

\* `##` and `###` lines above a message or term are an entry of their own
comment_above(w) ==
    IF w.comment # <<>> /\ Head(w.comment[1]) # "#"
    THEN <<parse_comment_entry(w.comment)>>
    ELSE <<>>

\* the entries read from one written entry: `id = ` with nothing after it is no
\* message (a message needs a value or attributes) and is dropped with the comment
\* above it, as junk
parse_entry(w) ==
    CASE w.kind = "Message" ->
             IF w.value = <<>> THEN <<>>
             ELSE comment_above(w)
                  \o <<Message(w.id, Some(parse_pattern(w.value)), parse_comment(w.comment))>>
      [] w.kind = "Term" ->
             IF w.value = <<>> THEN <<>>
             ELSE comment_above(w)
                  \o <<Term(w.id, parse_pattern(w.value), parse_comment(w.comment))>>
      [] w.kind = "Comment" ->
             IF w.comment = <<>> THEN <<>> ELSE <<parse_comment_entry(w.comment)>>
      [] w.kind = "Blank" -> <<>>

\* main.rs 255-267: the resource read from the file at out_path
parse(file) ==
    IF file.exists
    THEN Concat([k \in 1..Len(file.body) |-> parse_entry(file.body[k])])
    ELSE <<>>

-----------------------------------------------------------------------------
(* Run after run *)

\* most runs made one after the other
MaxRuns == 2

\* what is kept of a run that has ended
RunRecord ==
    [ languages |-> languages,
      source |-> source, source_outdated |-> source_outdated,
      target_existing |-> target_existing,
      pending_translations |-> pending_translations, translations |-> translations,
      sent |-> sent, output |-> disk ]

\* main is run once more on the files the first run was given: the source, the
\* prior snapshot, and the existing target put back at out_path
Rerun ==
    /\ pc = "done"
    /\ previous = <<>>
    /\ previous' = <<RunRecord>>
    /\ pc' = "start"
    /\ languages' = None
    /\ idx' = 1
    /\ pending_translations' = {}
    /\ translations' = {}
    /\ sent' = {}
    /\ disk' = fluent_file(target_existing)
    /\ UNCHANGED <<locale, source, source_outdated, target_existing>>

\* what the service answered the calls of a run: for each text sent to translate,
\* whether the call failed and the text that came back
AnswersOf(calls, results) ==
    {[text |-> c.text, ok |-> c.ok,
      reply |-> IF c.ok THEN get(results, c.id)[1] ELSE <<>>] : c \in calls}

\* what the language-name lookups of a run came to
NamesOf(resource, pending) ==
    {get(pending, resource[k].id) :
        k \in {j \in 1..Len(resource) :
                  /\ resource[j].type = "Message"
                  /\ is_lang_name(resource[j])
                  /\ contains_key(pending, resource[j].id)}}

\* the answers of the service in this run and the runs before it
Answers ==
    AnswersOf(sent, translations)
    \cup UNION {AnswersOf(previous[i].sent, previous[i].translations) :
                   i \in 1..Len(previous)}

Names ==
    NamesOf(source, pending_translations)
    \cup UNION {NamesOf(previous[i].source, previous[i].pending_translations) :
                   i \in 1..Len(previous)}

\* the service has answered the same text with the same translation throughout
SameAnswers == \A a, b \in Answers : a.text = b.text => a = b

\* the service has answered the language-name lookup with the same name throughout
SameNames == \A a, b \in Names : a = b

\* the service has listed the same languages throughout
SameLanguages == \A i \in 1..Len(previous) : previous[i].languages = languages

\* ValidateLocale, with a service that answers the same input with the same text
ValidateSame == ValidateLocale /\ SameLanguages'

\* Decide, with a service that answers the same input with the same text
DecideSame == Decide /\ SameNames'

\* Translate, with a service that answers the same input with the same text
TranslateSame == Translate /\ SameAnswers'

NextTwice ==
    \/ ValidateSame
    \/ DecideSame
    \/ DecideDone
    \/ TranslateSame
    \/ CreateFile
    \/ WriteEntry
    \/ Finish
    \/ Rerun

SpecTwice == Init /\ [][NextTwice]_vars

\* the source with the value of its message a changed
Edited(resource) ==
    [k \in 1..Len(resource) |->
        IF resource[k].type = "Message" /\ resource[k].id = "a"
        THEN Message("a", Changed(resource[k].value), resource[k].comment)
        ELSE resource[k]]

\* the source of the next run: as it was, or edited
LaterSources(resource) == {resource, Edited(resource)}

\* main is run once more, later: the file the last run wrote is the existing
\* target, the source may have changed, and the prior snapshot is the source of
\* the last run or the source as it is now
NextRun ==
    /\ pc = "done"
    /\ Len(previous) + 1 < MaxRuns
    /\ previous' = Append(previous, RunRecord)
    /\ target_existing' = parse(disk)
    /\ source' \in LaterSources(source)
    /\ source_outdated' \in {source, source'}
    /\ pc' = "start"
    /\ languages' = None
    /\ idx' = 1
    /\ pending_translations' = {}
    /\ translations' = {}
    /\ sent' = {}
    /\ UNCHANGED <<locale, disk>>

NextRuns ==
    \/ Next
    \/ NextRun

\* the parser attaches only `#` comments to a message or term
ParserMade(resource) ==
    \A k \in 1..Len(resource) :
        (resource[k].type # "Comment" /\ resource[k].comment # None) =>
            resource[k].comment[1].scope = "Comment"

\* the first of the runs: its existing target is one the parser can have read
InitRuns == Init /\ ParserMade(target_existing)

SpecRuns == InitRuns /\ [][NextRuns]_vars

-----------------------------------------------------------------------------
(* What the claims speak of *)

MessageAt(k) == k \in 1..Len(source) /\ source[k].type = "Message"

\* the first loop has passed entry k and pending_translations holds its verdicts
\* (the second stage consumes the map)
Decided(k) ==
    /\ pc \in {"decide", "translate"}
    /\ k \in 1..Len(source)
    /\ pc = "decide" => k < idx

\* the second loop has written entry k
WrittenAt(k) ==
    /\ pc \in {"write", "done", "fatal_write"}
    /\ k \in 1..Len(source)
    /\ k <= Len(disk.body)

\* the verdict of the first loop for the message at k is NeedsTranslation
NeedsTranslation(k) == contains_key(pending_translations, source[k].id)

InTarget(id) == find_message(target_existing, id) # None

InOutdated(id) == find_message(source_outdated, id) # None

TargetComment(id) == find_message(target_existing, id)[1].comment

\* the target entry of id has a standalone comment
StandaloneInTarget(id) ==
    /\ InTarget(id)
    /\ TargetComment(id) # None
    /\ TargetComment(id)[1].scope = "Comment"

\* the target entry of id has a standalone comment with the hand-translated tag
HandTranslated(id) ==
    /\ StandaloneInTarget(id)
    /\ \E j \in 1..Len(TargetComment(id)[1].content) :
          \E w \in 1..Len(TargetComment(id)[1].content[j]) :
              TargetComment(id)[1].content[j][w] = "tt-hand-translated"

\* the message's value is the one the prior snapshot has for its id
UnchangedFromOutdated(m) ==
    /\ InOutdated(m.id)
    /\ find_message(source_outdated, m.id)[1].value = m.value

\* Translator::translate was called for id
Submitted(id) == \E c \in sent : c.id = id

\* the ids of the messages and terms of a resource, in order
RECURSIVE SourceIds(_)
SourceIds(resource) ==
    IF resource = <<>> THEN <<>>
    ELSE (IF Head(resource).type \in {"Message", "Term"}
          THEN <<<<Head(resource).type, Head(resource).id>>>> ELSE <<>>)
         \o SourceIds(Tail(resource))

\* the ids of the messages and terms written to a file, in order
RECURSIVE WrittenIds(_)
WrittenIds(body) ==
    IF body = <<>> THEN <<>>
    ELSE (IF Head(body).kind \in {"Message", "Term"}
          THEN <<<<Head(body).kind, Head(body).id>>>> ELSE <<>>)
         \o WrittenIds(Tail(body))

-----------------------------------------------------------------------------
(* The claims *)

\* C1: hand-translation sovereignty. Whenever a message of the source whose target
\* entry carries a standalone comment with the hand-translated tag has been
\* written, the value written for its id is the text of the target entry's value,
\* whatever the elements of that value are.
C1_HandTranslationSovereignty ==
    \A k \in 1..Len(source) :
        (MessageAt(k) /\ WrittenAt(k) /\ HandTranslated(source[k].id)) =>
            /\ disk.body[k].kind = "Message"
            /\ disk.body[k].id = source[k].id
            /\ disk.body[k].value =
                   fluent_value(find_message(target_existing, source[k].id)[1].value)

\* C2: placeholder round trip. Whenever a message was stripped, came back from the
\* service with its stripped text unchanged and has been written, the text written
\* has the rendering of the k-th placeable where the k-th placeable stands in the
\* pattern: it is the pattern's texts and renderings one after the other.
C2_PlaceholderRoundTrip ==
    \A k \in 1..Len(source) :
        ( /\ MessageAt(k) /\ WrittenAt(k)
          /\ source[k].value # None
          /\ ~is_lang_name(source[k])
          /\ contains_key(translations, source[k].id)
          /\ get(translations, source[k].id) = Some(source_formatted(source[k].value[1])) )
        => /\ disk.body[k].kind = "Message"
           /\ disk.body[k].value =
                  Concat([j \in 1..Len(source[k].value[1]) |->
                             IF source[k].value[1][j].type = "TextElement"
                             THEN source[k].value[1][j].s
                             ELSE write_expression(source[k].value[1][j].e)])

\* C3: order preservation. When the run has ended without error, the ids of the
\* messages and terms in the output file are those of the source, in its order.
C3_OrderPreservation ==
    pc = "done" => WrittenIds(disk.body) = SourceIds(source)

\* the target entry of the message at k has no comment and the message's value is
\* the one of the prior snapshot
UntaggedUnchanged(k) ==
    /\ MessageAt(k)
    /\ InTarget(source[k].id)
    /\ TargetComment(source[k].id) = None
    /\ UnchangedFromOutdated(source[k])

\* C4, as claimed: a message with no comment on its target entry and a value
\* unchanged from the prior snapshot gets the verdict NeedsTranslation.
C4_UntaggedUnchangedNeedsTranslation ==
    \A k \in 1..Len(source) :
        (Decided(k) /\ UntaggedUnchanged(k)) => NeedsTranslation(k)

\* C4, amended: a message with no comment on its target entry and a value unchanged
\* from the prior snapshot gets the verdict Skip, the verdict of the diff.
C4_UntaggedUnchangedSkips ==
    \A k \in 1..Len(source) :
        (Decided(k) /\ UntaggedUnchanged(k)) => ~NeedsTranslation(k)

C4_Witness ==
    \E k \in 1..Len(source) :
        Decided(k) /\ UntaggedUnchanged(k) /\ ~NeedsTranslation(k)

\* C5: new-term forcing. A source message whose id is absent from the existing
\* target gets the verdict NeedsTranslation, whatever the prior snapshot holds.
C5_NewTermForcing ==
    \A k \in 1..Len(source) :
        (Decided(k) /\ MessageAt(k) /\ ~InTarget(source[k].id)) => NeedsTranslation(k)

C5_Witness ==
    \E k \in 1..Len(source) :
        /\ Decided(k) /\ MessageAt(k)
        /\ ~InTarget(source[k].id)
        /\ UnchangedFromOutdated(source[k])
        /\ NeedsTranslation(k)

\* C6: the comment precedence table. For a message present in the existing target:
\* a standalone comment gives Skip when it has the hand-translated tag and
\* NeedsTranslation when it has not; no comment, or a group or resource comment,
\* gives the verdict of the diff (NeedsTranslation iff the id is absent from the
\* prior snapshot or its value differs from the prior one).
C6_CommentPrecedence ==
    \A k \in 1..Len(source) :
        (Decided(k) /\ MessageAt(k) /\ InTarget(source[k].id)) =>
            ( NeedsTranslation(k) <=>
                IF StandaloneInTarget(source[k].id)
                THEN ~HandTranslated(source[k].id)
                ELSE ~UnchangedFromOutdated(source[k]) )

C6_Witness ==
    \E k \in 1..Len(source) :
        /\ Decided(k) /\ MessageAt(k)
        /\ HandTranslated(source[k].id)
        /\ InOutdated(source[k].id)
        /\ ~UnchangedFromOutdated(source[k])
        /\ ~NeedsTranslation(k)

\* C7: the language name. For a message that needs translation and whose comment
\* carries the language-name tag, translate is not called, and the value written is
\* the display name the lookup returned, or the fallback text.
C7_LangNameNotTranslated ==
    \A k \in 1..Len(source) :
        ( /\ MessageAt(k) /\ is_lang_name(source[k])
          /\ contains_key(pending_translations, source[k].id) )
        => /\ ~Submitted(source[k].id)
           /\ get(pending_translations, source[k].id)
                  \in {Some(DisplayName(locale)), Some(LangNameFallback)}
           /\ WrittenAt(k) =>
                  /\ disk.body[k].kind = "Message"
                  /\ disk.body[k].id = source[k].id
                  /\ Some(disk.body[k].value) = get(pending_translations, source[k].id)

\* C8: a message without a value. When a message needs translation and its result is
\* None, the writer writes `id = ` with an empty value at the message's position.
C8_NoValueWritesEmptyValue ==
    \A k \in 1..Len(source) :
        ( /\ MessageAt(k) /\ WrittenAt(k)
          /\ contains_key(translations, source[k].id)
          /\ get(translations, source[k].id) = None )
        => /\ disk.body[k].kind = "Message"
           /\ disk.body[k].id = source[k].id
           /\ disk.body[k].value = <<>>

\* C9, as claimed: a message whose value is unchanged from the prior snapshot and
\* which has an entry in the existing target is never submitted to translate.
C9_UnchangedNeverSubmitted ==
    \A k \in 1..Len(source) :
        (MessageAt(k) /\ UnchangedFromOutdated(source[k]) /\ InTarget(source[k].id))
        => ~Submitted(source[k].id)

\* C9, amended: a message whose value is unchanged from the prior snapshot and whose
\* entry in the existing target has no standalone comment without the
\* hand-translated tag is never submitted to translate.
C9_UnchangedUnmarkedNeverSubmitted ==
    \A k \in 1..Len(source) :
        ( /\ MessageAt(k) /\ UnchangedFromOutdated(source[k]) /\ InTarget(source[k].id)
          /\ ~(StandaloneInTarget(source[k].id) /\ ~HandTranslated(source[k].id)) )
        => ~Submitted(source[k].id)

\* the run is over, something was submitted, and an unchanged message was not
C9_Witness ==
    /\ pc = "done"
    /\ sent # {}
    /\ \E k \in 1..Len(source) :
          /\ MessageAt(k) /\ UnchangedFromOutdated(source[k]) /\ InTarget(source[k].id)
          /\ TargetComment(source[k].id) = None
          /\ ~Submitted(source[k].id)

\* C10: the output is written atomically. At every point of a run the file at the
\* output path holds the complete previous target or the complete new output.
C10_AtomicOutput ==
    \/ disk = fluent_file(target_existing)
    \/ /\ disk.exists
       /\ disk.body = [k \in 1..Len(source) |->
                          written_entry(source[k], translations, target_existing)]

\* the call of Translator::translate made for id (one per id: a HashMap's keys)
CallOf(id) == CHOOSE c \in sent : c.id = id

\* the call of Translator::translate made for id failed
FailedCall(id) == \E c \in sent : c.id = id /\ ~c.ok

\* the results of the run without the one of id
WithoutResultOf(id) == {e \in translations : e.id # id}

C12_TermsVerbatim ==
    \A k \in 1..Len(source) :
        source[k].type = "Term" =>
            /\ ~Submitted(source[k].id)
            /\ WrittenAt(k) => disk.body[k] = fluent_entry(source[k])

\* the verdict of the run for the message at k was Skip: no result was computed for it
Skipped(k) == MessageAt(k) /\ ~contains_key(translations, source[k].id)

\* C13: a skipped message. Whenever a message with verdict Skip has been written,
\* the output holds at its place the message of its id of the existing target, with
\* that entry's comment and the text of its value, when the target has the id, and
\* the source message itself otherwise.
C13_SkipKeepsTargetEntry ==
    \A k \in 1..Len(source) :
        (WrittenAt(k) /\ Skipped(k)) =>
            disk.body[k] =
                fluent_entry(IF InTarget(source[k].id)
                             THEN find_message(target_existing, source[k].id)[1]
                             ELSE source[k])

\* the requested locale was found in the list of target languages the service returned
LocaleFound ==
    /\ languages # None
    /\ languages[1].ok
    /\ locale \in languages[1].codes

\* C14: locale validation comes first. As long as the locale has not been found in
\* the service's list of target languages, no translate call has been made and the
\* file at the output path is the existing target, untouched; and once the list
\* could not be retrieved, or was retrieved without the locale, the run has ended
\* with the fatal error and takes no further step.
C14_LocaleValidationFirst ==
    /\ ~LocaleFound =>
           /\ sent = {}
           /\ disk = fluent_file(target_existing)
    /\ (languages # None /\ ~LocaleFound) =>
           /\ pc = "fatal_locale"
           /\ ~ENABLED Next

\* validation has failed for a list retrieved without the locale, with a target
\* file in place
C14_Witness ==
    /\ pc = "fatal_locale"
    /\ languages # None
    /\ languages[1].ok
    /\ locale \notin languages[1].codes
    /\ disk.exists

\* the number of sentinels in a text, counted left to right without overlap
RECURSIVE SentinelCount(_)
SentinelCount(s) ==
    IF s = <<>> THEN 0
    ELSE IF MatchAt(s, Sentinel, 1)
         THEN 1 + SentinelCount(SubSeq(s, Len(Sentinel) + 1, Len(s)))
         ELSE SentinelCount(Tail(s))

\* the text with its sentinels replaced left to right, the k-th sentinel by the k-th
\* placeholder, as long as there are placeholders; the sentinels after that stay
RECURSIVE InOrder(_, _)
InOrder(s, ps) ==
    IF s = <<>> \/ ps = <<>> THEN s
    ELSE IF MatchAt(s, Sentinel, 1)
         THEN Head(ps) \o InOrder(SubSeq(s, Len(Sentinel) + 1, Len(s)), Tail(ps))
         ELSE <<Head(s)>> \o InOrder(Tail(s), ps)

\* C15: reinsertion when the counts differ. Whenever a message has been written from
\* a translated text whose number of sentinels is not the number of its placeholders,
\* the value written is that text with its sentinels replaced left to right, each by
\* the placeholder of its rank: with fewer sentinels the placeholders beyond them are
\* left out, with more sentinels the ones beyond the placeholders stay as they are.
C15_MismatchInOrder ==
    \A k \in 1..Len(source) :
        ( /\ MessageAt(k) /\ WrittenAt(k)
          /\ contains_key(translations, source[k].id)
          /\ get(translations, source[k].id) # None
          /\ SentinelCount(get(translations, source[k].id)[1])
                 # Len(placeables(source[k].value)) )
        => disk.body[k].value =
               InOrder(get(translations, source[k].id)[1], placeables(source[k].value))

\* C16: the same inputs give the same output. When main has been run a second time
\* on the source, prior snapshot and existing target of the first run, with a
\* service that answers the same input with the same text, and both runs have
\* ended without error, the second output file is the first one, whatever the order
\* in which either run took its pending units.
C16_SameOutputTwice ==
    ( /\ pc = "done"
      /\ Len(previous) = 1
      /\ previous[1].source = source
      /\ previous[1].source_outdated = source_outdated
      /\ previous[1].target_existing = target_existing )
    => disk = previous[1].output

\* the second run has ended after two units were submitted, one of them answered
\* with a text other than the one sent
C16_Witness ==
    /\ pc = "done"
    /\ Len(previous) = 1
    /\ previous[1].target_existing = target_existing
    /\ Cardinality(sent) = 2
    /\ \E c \in sent : c.ok /\ get(translations, c.id) # Some(c.text)
    /\ disk = previous[1].output

\* C17: a skipped message is in the target. Every message the first loop has given
\* the verdict Skip has an entry in the existing target; so whenever the writer
\* comes to, or has written, a message without a result, the target has its id, and
\* the writer's fall-back to the source message is not taken.
C17_SkipImpliesInTarget ==
    \A k \in 1..Len(source) :
        MessageAt(k) =>
            /\ (Decided(k) /\ ~NeedsTranslation(k)) => InTarget(source[k].id)
            /\ (pc = "write" /\ idx = k /\ Skipped(k)) => InTarget(source[k].id)
            /\ (WrittenAt(k) /\ Skipped(k)) => InTarget(source[k].id)

\* a skipped message has been written, from its entry in the target
C17_Witness ==
    \E k \in 1..Len(source) :
        /\ WrittenAt(k) /\ Skipped(k)
        /\ InTarget(source[k].id)
        /\ disk.body[k].kind = "Message"

\* the existing target the first of the runs was given
FirstTarget == IF previous = <<>> THEN target_existing ELSE previous[1].target_existing

\* the first target has a message of this id under a standalone comment with the
\* hand-translated tag
Pinned(id) ==
    LET existing == find_message(FirstTarget, id)
    IN  /\ existing # None
        /\ existing[1].comment # None
        /\ existing[1].comment[1].scope = "Comment"
        /\ any_contains(existing[1].comment[1].content, HandTag)

\* the source of every run so far has a message of this id
InEverySource(id) ==
    /\ find_message(source, id) # None
    /\ \A i \in 1..Len(previous) : find_message(previous[i].source, id) # None

\* C18: sovereignty persists. Over runs made one after the other, each on the file
\* the run before it wrote, whatever the source has become: whenever a message has
\* been written whose entry in the first target carried the hand-translated tag and
\* whose id has been in the source of every run, the output holds its id with a
\* comment line carrying the tag and with the text of the value the first target had.
C18_SovereigntyPersists ==
    \A k \in 1..Len(source) :
        ( /\ MessageAt(k) /\ WrittenAt(k)
          /\ Pinned(source[k].id)
          /\ InEverySource(source[k].id) )
        => /\ disk.body[k].kind = "Message"
           /\ disk.body[k].id = source[k].id
           /\ \E j \in 1..Len(disk.body[k].comment) :
                  contains(disk.body[k].comment[j], HandTag)
           /\ disk.body[k].value = fluent_value(find_message(FirstTarget, source[k].id)[1].value)

\* C19: convergence. In a run that follows another with the same source, a prior
\* snapshot equal to that source and the file the run before wrote as its existing
\* target, no translate call is made, and when the run has ended the output file
\* is the file it found.
C19_Convergence ==
    ( /\ previous # <<>>
      /\ source = previous[Len(previous)].source
      /\ source_outdated = source )
    => /\ sent = {}
       /\ pc = "done" => disk = previous[Len(previous)].output

====
